---- MODULE Spec2Model ----
(***************************************************************************)
(* A model of compile_data.py: the compilation of the monthly Rosstat      *)
(* workbooks into one COVID-19 mortality dataset.                          *)
(*                                                                         *)
(* Text is modelled as a sequence of one-character strings, so that the    *)
(* regular expression, the substring tests, the key normalisation and the  *)
(* string order used by the sort are computed and not assumed.  Cyrillic   *)
(* literals of the source are written with Latin stand-ins of the same     *)
(* shape (two capitalised words separated by one blank, and so on).        *)
(***************************************************************************)
EXTENDS Integers, Sequences, FiniteSets, TLC

\* ------------------------------------------------------------------ text

\* The characters that occur in the modelled texts, in code point order.
Chars ==
    << " ", ",", "-", ".", "/", "0", "1", "2", "3", "4", "5", "6", "7", "8", "9",
       "A", "B", "C", "D", "E", "F", "G", "H", "I", "J", "K", "L", "M",
       "N", "O", "P", "Q", "R", "S", "T", "U", "V", "W", "X", "Y", "Z", "_",
       "a", "b", "c", "d", "e", "f", "g", "h", "i", "j", "k", "l", "m",
       "n", "o", "p", "q", "r", "s", "t", "u", "v", "w", "x", "y", "z" >>

DigitChars == << "0", "1", "2", "3", "4", "5", "6", "7", "8", "9" >>

LowerChars ==
    << "a", "b", "c", "d", "e", "f", "g", "h", "i", "j", "k", "l", "m",
       "n", "o", "p", "q", "r", "s", "t", "u", "v", "w", "x", "y", "z" >>

UpperChars ==
    << "A", "B", "C", "D", "E", "F", "G", "H", "I", "J", "K", "L", "M",
       "N", "O", "P", "Q", "R", "S", "T", "U", "V", "W", "X", "Y", "Z" >>

IndexOf(seq, c) == CHOOSE i \in 1..Len(seq) : seq[i] = c

IsIn(seq, c) == \E i \in 1..Len(seq) : seq[i] = c

\* The position of a character in the code point order.
Ord(c) == IndexOf(Chars, c)

IsDigit(c) == IsIn(DigitChars, c)

DigitVal(c) == IndexOf(DigitChars, c) - 1

\* Python's str order: by code point, a proper prefix first.
RECURSIVE StrLess(_, _)
StrLess(s, t) ==
    IF t = << >> THEN FALSE
    ELSE IF s = << >> THEN TRUE
    ELSE IF Head(s) # Head(t) THEN Ord(Head(s)) < Ord(Head(t))
    ELSE StrLess(Tail(s), Tail(t))

\* `pat in s`, also Series.str.contains(pat) on one cell.
Contains(s, pat) ==
    \E i \in 1..(Len(s) - Len(pat) + 1) :
        SubSeq(s, i, i + Len(pat) - 1) = pat

\* str.upper() of one character.
Upper(c) == IF IsIn(LowerChars, c) THEN UpperChars[IndexOf(LowerChars, c)] ELSE c

\* name_key: .str.replace(' ','').str.upper()
RECURSIVE NameKey(_)
NameKey(s) ==
    IF s = << >> THEN << >>
    ELSE IF Head(s) = " " THEN NameKey(Tail(s))
    ELSE << Upper(Head(s)) >> \o NameKey(Tail(s))

\* The missing value of a text column (NaN); never equal to a text.
NaN == << "NaN" >>

\* ---------------------------------------------------------------- period

\* re.findall(r'\d+', s) followed by int(): the maximal digit runs of s, as
\* numbers.  acc is the value of the run being read, open whether one is.
RECURSIVE FindAllInt(_, _, _)
FindAllInt(s, acc, open) ==
    IF s = << >> THEN (IF open THEN << acc >> ELSE << >>)
    ELSE IF IsDigit(Head(s))
         THEN FindAllInt(Tail(s), (IF open THEN acc * 10 ELSE 0) + DigitVal(Head(s)), TRUE)
         ELSE (IF open THEN << acc >> ELSE << >>) \o FindAllInt(Tail(s), 0, FALSE)

Reversed(seq) == [i \in 1..Len(seq) |-> seq[Len(seq) + 1 - i]]

YearFirst == 2020

\* Lines 59-66: the list of numbers found in the name, reversed as a whole
\* when its first element is a year.  << >> stands for "return None".
ParsePeriod(file_name) ==
    LET period == FindAllInt(file_name, 0, FALSE)
    IN  IF Len(period) < 2 THEN << >>
        ELSE IF period[1] >= YearFirst THEN Reversed(period)
        ELSE period

\* The decimal digits of a natural number.
RECURSIVE Decimal(_)
Decimal(n) ==
    IF n < 10 THEN << DigitChars[n + 1] >>
    ELSE Decimal(n \div 10) \o << DigitChars[(n % 10) + 1] >>

\* f'{n:0<w>d}': zero padding up to width w, never a cut.
RECURSIVE ZeroPad(_, _)
ZeroPad(s, w) == IF Len(s) >= w THEN s ELSE ZeroPad(<< "0" >> \o s, w)

FormatPeriodUnpadded(period) ==
    Decimal(period[2]) \o << "-" >> \o Decimal(period[1]) \o << "-", "0", "1" >>

\* Line 111: f'{period[1]:04d}-{period[0]:02d}-01'
FormatPeriod(period) ==
    ZeroPad(Decimal(period[2]), 4) \o << "-" >>
        \o ZeroPad(Decimal(period[1]), 2) \o << "-", "0", "1" >>

LayoutMonth == 5

LayoutYear == 2021

\* Lines 106-107: the columns of the sheet that are kept.
Cols(period) ==
    IF period[1] < LayoutMonth \/ period[2] < LayoutYear
    THEN << 0, 1, 2, 3 >>
    ELSE << 0, 1, 4, 7 >>

\* ----------------------------------------------------------- reference

\* Lines 40-44 and 46-50: a frame built from the values of one mapping of
\* reg_map.json, with the name_key column added.
RegFrame(regions) ==
    [i \in 1..Len(regions) |->
        [reg_name |-> regions[i].reg_name, reg_code |-> regions[i].reg_code,
         fo_code |-> regions[i].fo_code, name_key |-> NameKey(regions[i].reg_name)]]

FoFrame(fo) ==
    [i \in 1..Len(fo) |->
        [fo_name |-> fo[i].fo_name, fo_code |-> fo[i].fo_code,
         summary |-> fo[i].summary, name_key |-> NameKey(fo[i].fo_name)]]

\* ------------------------------------------------------------ workbook

\* The two spellings of the form's sheet name (line 71).
Form51 == << "5", ".", "1" >>

Form5_1 == << "5", "_", "1" >>

\* 'Российская Федерация' (line 78) and 'Информация' (line 86).
AnchorText == << "R", "u", " ", "F", "e" >>

FootnoteText == << "I", "n", "f" >>

\* Line 71: the names of the sheets of the form, in workbook order.
Keys(all_sheets) ==
    LET Is51(sh) == Contains(sh.key, Form51) \/ Contains(sh.key, Form5_1)
    IN  SelectSeq(all_sheets, Is51)

\* The 0-based labels of the rows whose first cell contains pat, ascending
\* (lines 78 and 86).
RECURSIVE RowsContaining(_, _, _)
RowsContaining(col0, pat, k) ==
    IF k > Len(col0) THEN << >>
    ELSE (IF Contains(col0[k], pat) THEN << k - 1 >> ELSE << >>)
         \o RowsContaining(col0, pat, k + 1)

\* Line 87: the label of the first footnote row of the sheet, or one past
\* the number of rows.
NEnd(col0) ==
    LET end_idx == RowsContaining(col0, FootnoteText, 1)
    IN  IF end_idx = << >> THEN Len(col0) + 1 ELSE end_idx[1]

\* The number in column j of the row labelled r.  Every cell of the numeric
\* columns of a sheet holds a different number, so that the choice of the
\* columns shows in the rows.
CellValue(r, j) == 10 * r + j

\* Lines 108-116: df_data.iloc[n_start:n_end, cols] with the canonical
\* column names, name_key and period.  index is the row's label in the sheet.
Slice(col0, n_start, n_end, cols, period) ==
    LET last == IF n_end < Len(col0) THEN n_end ELSE Len(col0)
        n    == IF last > n_start THEN last - n_start ELSE 0
    IN  [i \in 1..n |->
            LET r == n_start + i - 1
            IN  [index |-> r,
                 subject |-> col0[r + 1],
                 total_deaths |-> CellValue(r, cols[2]),
                 confirmed_covid_deaths |-> CellValue(r, cols[3]),
                 possible_covid_deaths |-> CellValue(r, cols[4]),
                 name_key |-> NameKey(col0[r + 1]),
                 period |-> FormatPeriod(period)]]

\* A drop that forgets to drop.
DropSummaryKeepsAll(df, df_fo) == df

\* Lines 120-122: the rows whose label the inner join with the summary
\* entries of df_fo returns are dropped.
DropSummary(df, df_fo) ==
    LET df_check ==
            {df[i].index : i \in {k \in 1..Len(df) :
                \E j \in 1..Len(df_fo) :
                    df_fo[j].summary /\ df_fo[j].name_key = df[k].name_key}}
        Kept(r) == r.index \notin df_check
    IN  SelectSeq(df, Kept)

RECURSIVE Flatten(_)
Flatten(ss) == IF ss = << >> THEN << >> ELSE Head(ss) \o Flatten(Tail(ss))

\* Line 125: df.merge(df_reg, how='left', on='name_key').  One row per
\* matching entry of df_reg, in its order; one row of NaN when none matches.
MergeReg(df, df_reg) ==
    Flatten([i \in 1..Len(df) |->
        LET Match(g) == g.name_key = df[i].name_key
            right    == SelectSeq(df_reg, Match)
            With(g)  == [subject |-> df[i].subject,
                         total_deaths |-> df[i].total_deaths,
                         confirmed_covid_deaths |-> df[i].confirmed_covid_deaths,
                         possible_covid_deaths |-> df[i].possible_covid_deaths,
                         name_key |-> df[i].name_key,
                         period |-> df[i].period,
                         reg_name |-> g.reg_name, reg_code |-> g.reg_code,
                         fo_code |-> g.fo_code]
        IN  IF right = << >>
            THEN << With([reg_name |-> NaN, reg_code |-> NaN, fo_code |-> NaN]) >>
            ELSE [j \in 1..Len(right) |-> With(right[j])]])

\* Line 131: df.merge(df_fo, how='left', on='fo_code').
MergeFo(df, df_fo) ==
    Flatten([i \in 1..Len(df) |->
        LET Match(g) == g.fo_code = df[i].fo_code
            right    == SelectSeq(df_fo, Match)
            With(g)  == [subject |-> df[i].subject,
                         total_deaths |-> df[i].total_deaths,
                         confirmed_covid_deaths |-> df[i].confirmed_covid_deaths,
                         possible_covid_deaths |-> df[i].possible_covid_deaths,
                         name_key_x |-> df[i].name_key,
                         period |-> df[i].period,
                         reg_name |-> df[i].reg_name, reg_code |-> df[i].reg_code,
                         fo_code |-> df[i].fo_code,
                         fo_name |-> g.fo_name, summary |-> g.summary,
                         name_key_y |-> g.name_key]
        IN  IF right = << >>
            THEN << With([fo_name |-> NaN, summary |-> NaN, name_key |-> NaN]) >>
            ELSE [j \in 1..Len(right) |-> With(right[j])]])

\* Line 137: the columns that are returned.
DropColumns(df) ==
    [i \in 1..Len(df) |->
        [subject |-> df[i].subject,
         total_deaths |-> df[i].total_deaths,
         confirmed_covid_deaths |-> df[i].confirmed_covid_deaths,
         possible_covid_deaths |-> df[i].possible_covid_deaths,
         period |-> df[i].period,
         reg_code |-> df[i].reg_code,
         fo_name |-> df[i].fo_name]]

\* ",".join(names) of lines 128 and 134 raises TypeError when an element is
\* not a text.
JoinRaises(names) == \E i \in 1..Len(names) : names[i] = NaN

\* ",".join(names) as a text.
RECURSIVE Join(_)
Join(names) ==
    IF names = << >> THEN << >>
    ELSE IF Len(names) = 1 THEN names[1]
    ELSE names[1] \o << "," >> \o Join(Tail(names))

\* One line of console output: what is said, and the text or number in it.
Line(msg, text, n) == [msg |-> msg, text |-> text, n |-> n]

\* The value process_file ends with: the frame it returns (none: it returns
\* None), or the exception that leaves it; what it printed; how many
\* workbooks it read; get_reg_map's memo after it.
Outcome(none, rows, raised, out, reads, memo) ==
    [none |-> none, rows |-> rows, raised |-> raised, out |-> out,
     reads |-> reads, memo |-> memo]

\* Lines 36-52: get_reg_map() under functools.cache.  memo is << >> before
\* the first successful call and holds the two frames after it; a call that
\* raises leaves nothing in the memo.
GetRegMap(memo, reg_map_json) ==
    IF memo # << >> THEN memo
    ELSE IF ~reg_map_json.ok THEN << >>
    ELSE << [df_reg |-> RegFrame(reg_map_json.regions),
             df_fo |-> FoFrame(reg_map_json.fo)] >>

\* Lines 55-137: process_file(file_name), the workbook of that name being
\* all_sheets.
ProcessFile(file_name, all_sheets, memo, reg_map_json) ==
    LET period == ParsePeriod(file_name)
        l_start == Line("start", file_name, 0)
    IN
    IF period = << >>
    THEN Outcome(TRUE, << >>, "", << l_start, Line("no_period", << >>, 0) >>, 0, memo)
    ELSE
    LET l_period == Line("period",
                         ZeroPad(Decimal(period[1]), 2) \o << "." >>
                             \o ZeroPad(Decimal(period[2]), 4), 0)
        keys == Keys(all_sheets)
    IN
    IF keys = << >>
    THEN Outcome(TRUE, << >>, "", << l_start, l_period, Line("no_sheet", << >>, 0) >>, 1, memo)
    ELSE
    LET col0 == keys[1].col0
        start_idx == RowsContaining(col0, AnchorText, 1)
    IN
    IF start_idx = << >>
    THEN Outcome(TRUE, << >>, "", << l_start, l_period, Line("no_anchor", << >>, 0) >>, 1, memo)
    ELSE
    LET df0 == Slice(col0, start_idx[1], NEnd(col0), Cols(period), period)
        loaded == GetRegMap(memo, reg_map_json)
    IN
    IF loaded = << >>
    THEN Outcome(TRUE, << >>, "reg_map", << l_start, l_period >>, 1, memo)
    ELSE
    LET df_reg == loaded[1].df_reg
        df_fo == loaded[1].df_fo
        df1 == MergeReg(DropSummary(df0, df_fo), df_reg)
        NoReg(r) == r.reg_name = NaN
        no_reg == SelectSeq(df1, NoReg)
        l_reg == IF no_reg = << >> THEN << >>
                 ELSE << Line("no_region",
                              Join([i \in 1..Len(no_reg) |-> no_reg[i].subject]), 0) >>
        df2 == MergeFo(df1, df_fo)
        NoFo(r) == r.fo_name = NaN
        no_fo == SelectSeq(df2, NoFo)
        codes == [i \in 1..Len(no_fo) |-> no_fo[i].fo_code]
    IN
    IF no_fo # << >> /\ JoinRaises(codes)
    THEN Outcome(TRUE, << >>, "join", << l_start, l_period >> \o l_reg, 1, loaded)
    ELSE
    LET l_fo == IF no_fo = << >> THEN << >>
                ELSE << Line("no_district", Join(codes), 0) >>
    IN  Outcome(FALSE, DropColumns(df2), "",
                << l_start, l_period >> \o l_reg \o l_fo
                    \o << Line("saved", << >>, Len(df2)) >>,
                1, loaded)

\* The order of sort_values(['subject', 'period']) on two rows.
RowLess(a, b) ==
    \/ StrLess(a.subject, b.subject)
    \/ a.subject = b.subject /\ StrLess(a.period, b.period)

\* x put into the sorted sequence s after the rows that are not greater.
RECURSIVE Insert(_, _)
Insert(s, x) ==
    IF s = << >> THEN << x >>
    ELSE IF RowLess(x, Head(s)) THEN << x >> \o s
    ELSE << Head(s) >> \o Insert(Tail(s), x)

\* Line 151: a stable sort by (subject, period).
RECURSIVE SortValues(_)
SortValues(df) ==
    IF df = << >> THEN << >>
    ELSE Insert(SortValues(SubSeq(df, 1, Len(df) - 1)), df[Len(df)])

\* --------------------------------------------------------------- inputs

MaxFiles == 2

MaxRows == 3

\* First cells of the rows of a sheet: the anchor row, a footnote, a region
\* (twice, the second spelling with a blank inside), a subject no reference
\* entry names, a federal district.
CellRF == AnchorText

CellInfo == << "I", "n", "f", "o" >>

CellAb == << "A", "b" >>

CellA_b == << "A", " ", "b" >>

CellXy == << "X", "y" >>

CellTm == << "T", "m" >>

Cells == {CellRF, CellInfo, CellAb, CellA_b, CellXy, CellTm}

RECURSIVE SeqsUpTo(_, _)
SeqsUpTo(S, n) ==
    IF n = 0 THEN {<< >>}
    ELSE LET shorter == SeqsUpTo(S, n - 1)
         IN  shorter \cup {Append(q, x) : q \in {r \in shorter : Len(r) = n - 1}, x \in S}

Sheet(key, col0) == [key |-> key, col0 |-> col0]

KeyForm == << "5", ".", "1" >>

KeyFormOld == << "T", "5", "_", "1" >>

KeyOther == << "1", ".", "1" >>

\* Workbooks of one sheet of the form, with every column of first cells up to
\* MaxRows rows.
GridBooks == {<< Sheet(KeyForm, g) >> : g \in SeqsUpTo(Cells, MaxRows)}

BookOk == << Sheet(KeyForm, << CellRF, CellAb >>) >>

BookNoSheet == << Sheet(KeyOther, << CellRF, CellAb >>) >>

BookNoAnchor == << Sheet(KeyOther, << CellRF >>), Sheet(KeyFormOld, << CellAb >>) >>

BookTwoForms ==
    << Sheet(KeyOther, << CellRF, CellXy >>),
       Sheet(KeyFormOld, << CellRF, CellTm, CellAb >>),
       Sheet(KeyForm, << CellRF, CellXy >>) >>

BookUnmatched == << Sheet(KeyForm, << CellRF, CellAb, CellXy >>) >>

\* File names, as Path('data').glob('*.xlsx') gives them (line 141), in the
\* spellings of the releases: month then year, year then month, and either
\* with the number of a copy after it; a name with the year alone; a name
\* without a number.
Dir == << "d", "a", "t", "a", "/" >>

Ext == << ".", "x", "l", "s", "x" >>

NameMY(m, y) == Dir \o << "e" >> \o ZeroPad(Decimal(m), 2) \o << "_" >> \o Decimal(y) \o Ext

NameYM(m, y) == Dir \o Decimal(y) \o << "_", "e" >> \o ZeroPad(Decimal(m), 2) \o Ext

NameMYV(m, y, v) ==
    Dir \o << "e" >> \o ZeroPad(Decimal(m), 2) \o << "_" >> \o Decimal(y)
        \o << "_", "v" >> \o Decimal(v) \o Ext

NameYMV(m, y, v) ==
    Dir \o Decimal(y) \o << "_", "e" >> \o ZeroPad(Decimal(m), 2)
        \o << "_", "v" >> \o Decimal(v) \o Ext

NameY(y) == Dir \o << "e" >> \o Decimal(y) \o Ext

NameNone == Dir \o << "e" >> \o Ext

\* A file of the data directory: its name, its workbook, and the month and
\* year the workbook is the release of (which the program never reads).
File(name, m, y, book) ==
    [name |-> name, release |-> << m, y >>, all_sheets |-> book]

Months == {1, 4, 5, 10, 12}

Years == {2019, 2020, 2021, 2022}

Copies == {2}

NamedFiles(book) ==
    UNION {{File(NameMY(m, y), m, y, book), File(NameYM(m, y), m, y, book)}
           \cup {File(NameMYV(m, y, v), m, y, book) : v \in Copies}
           \cup {File(NameYMV(m, y, v), m, y, book) : v \in Copies}
           : m \in Months, y \in Years}
    \cup {File(NameY(y), 1, y, book) : y \in Years}
    \cup {File(NameNone, 1, 2021, book)}

\* Batches of one file: every name with two workbooks, and two names (one of
\* each layout) with every workbook.
SingleFiles ==
    NamedFiles(BookOk) \cup NamedFiles(BookUnmatched)
    \cup {File(NameMY(4, 2021), 4, 2021, b) : b \in GridBooks}
    \cup {File(NameYM(5, 2021), 5, 2021, b) : b \in GridBooks}
    \cup {File(NameMY(4, 2021), 4, 2021, b) : b \in {BookNoSheet, BookNoAnchor, BookTwoForms}}

\* The files of the longer batches.
BatchFiles ==
    {File(NameMY(5, 2021), 5, 2021, BookOk),
     File(NameMY(10, 2021), 10, 2021, BookOk),
     File(NameYM(1, 2022), 1, 2022, BookOk),
     File(NameYM(5, 2021), 5, 2021, BookOk),
     File(NameYM(12, 2019), 12, 2019, BookOk),
     File(NameMYV(10, 2021, 2), 10, 2021, BookOk),
     File(NameMY(4, 2021), 4, 2021, BookTwoForms),
     File(NameNone, 1, 2021, BookOk),
     File(NameYMV(4, 2020, 2), 4, 2020, BookOk),
     File(NameYMV(4, 2021, 2), 4, 2021, BookOk),
     File(NameY(2021), 1, 2021, BookOk),
     File(NameMY(12, 2020), 12, 2020, BookNoSheet),
     File(NameMY(1, 2021), 1, 2021, BookNoAnchor),
     File(NameMY(4, 2021), 4, 2021, BookUnmatched)}

Batches ==
    {<< f >> : f \in SingleFiles} \cup SeqsUpTo(BatchFiles, MaxFiles)

\* reg_map.json.  Codes are texts.
Region(name, code, fo) == [reg_name |-> name, reg_code |-> code, fo_code |-> fo]

District(name, code, summary) == [fo_name |-> name, fo_code |-> code, summary |-> summary]

RegMap(regions, fo) == [ok |-> TRUE, regions |-> regions, fo |-> fo]

Russia == District(AnchorText, << "0" >>, TRUE)

\* Every region once and of a known district; the districts are summary rows
\* of the sheets.
RegMapUsual ==
    RegMap(<< Region(CellAb, << "0", "1" >>, << "1" >>) >>,
           << Russia, District(CellTm, << "1" >>, TRUE) >>)

\* A region of a district the reference does not hold.
RegMapOrphan ==
    RegMap(<< Region(CellAb, << "0", "1" >>, << "9" >>) >>,
           << Russia, District(CellTm, << "1" >>, TRUE) >>)

\* reg_map.json is missing or does not parse.
RegMapMissing == [ok |-> FALSE, regions |-> << >>, fo |-> << >>]

RegMaps == {RegMapUsual, RegMapOrphan, RegMapMissing}

\* Further contents of the reference: two regions of one normalized name; two
\* districts of one code; names that are a region and a summary district at
\* once; districts that are not summary entries.
RegMapsAny ==
    RegMaps \cup
    {RegMap(<< Region(CellAb, << "0", "1" >>, << "1" >>),
               Region(CellA_b, << "0", "2" >>, << "1" >>) >>,
            << Russia, District(CellTm, << "1" >>, TRUE) >>),
     RegMap(<< Region(CellAb, << "0", "1" >>, << "1" >>) >>,
            << Russia, District(CellTm, << "1" >>, TRUE),
               District(<< "T", "n" >>, << "1" >>, FALSE) >>),
     RegMap(<< Region(AnchorText, << "0", "0" >>, << "0" >>),
               Region(CellAb, << "0", "1" >>, << "1" >>),
               Region(CellTm, << "0", "3" >>, << "1" >>) >>,
            << Russia, District(CellTm, << "1" >>, TRUE) >>),
     RegMap(<< Region(AnchorText, << "0", "0" >>, << "0" >>),
               Region(CellAb, << "0", "1" >>, << "1" >>) >>,
            << District(AnchorText, << "0" >>, FALSE),
               District(CellTm, << "1" >>, FALSE) >>)}

\* ---------------------------------------------------------------- state

VARIABLES
    files,          \* the files of data/, in the order glob yields them
    reg_map_json,   \* the content of reg_map.json
    data_list,      \* line 141: what process_file returned, file by file
    memo,           \* the memo of get_reg_map
    console,        \* the lines printed
    workbooks_read, \* the number of calls of pd.read_excel
    status,         \* "running", "done" or "aborted" (an exception left main)
    error,          \* the place the exception came from, or ""
    covid_russia    \* the rows written to covid_russia.xlsx

vars ==
    << files, reg_map_json, data_list, memo, console, workbooks_read,
       status, error, covid_russia >>

Init ==
    /\ files \in Batches
    /\ reg_map_json \in RegMaps
    /\ data_list = << >>
    /\ memo = << >>
    /\ console = << >>
    /\ workbooks_read = 0
    /\ status = "running"
    /\ error = ""
    /\ covid_russia = << >>

\* One step of the comprehension of line 141: process_file on the next file.
process_file ==
    /\ status = "running"
    /\ Len(data_list) < Len(files)
    /\ LET f == files[Len(data_list) + 1]
           o == ProcessFile(f.name, f.all_sheets, memo, reg_map_json)
       IN  /\ console' = console \o o.out
           /\ workbooks_read' = workbooks_read + o.reads
           /\ memo' = o.memo
           /\ IF o.raised # ""
              THEN /\ status' = "aborted"
                   /\ error' = o.raised
                   /\ data_list' = data_list
              ELSE /\ data_list' = Append(data_list, [none |-> o.none, rows |-> o.rows])
                   /\ UNCHANGED << status, error >>
    /\ UNCHANGED << files, reg_map_json, covid_russia >>

\* Lines 143-153 of main: the frames that are not None are appended to one
\* another by reduce (which raises on an empty sequence), sorted and written.
main ==
    /\ status = "running"
    /\ Len(data_list) = Len(files)
    /\ LET NotNone(d) == ~d.none
           data_list_filtered == SelectSeq(data_list, NotNone)
           df_data == Flatten([i \in 1..Len(data_list_filtered) |->
                                  data_list_filtered[i].rows])
       IN  IF data_list_filtered = << >>
           THEN /\ status' = "aborted"
                /\ error' = "reduce"
                /\ UNCHANGED << console, covid_russia >>
           ELSE /\ status' = "done"
                /\ error' = ""
                /\ console' = console \o << Line("total", << >>, Len(df_data)),
                                            Line("updated", << >>, 0) >>
                /\ covid_russia' = SortValues(df_data)
    /\ UNCHANGED << files, reg_map_json, data_list, memo, workbooks_read >>

Next == process_file \/ main

Spec == Init /\ [][Next]_vars

\* The same program with any content of reg_map.json.
InitAnyRegMap ==
    /\ files \in Batches
    /\ reg_map_json \in RegMapsAny
    /\ data_list = << >>
    /\ memo = << >>
    /\ console = << >>
    /\ workbooks_read = 0
    /\ status = "running"
    /\ error = ""
    /\ covid_russia = << >>

SpecAnyRegMap == InitAnyRegMap /\ [][Next]_vars

\* --------------------------------------------------------------- claims

Count(seq, x) == Cardinality({i \in 1..Len(seq) : seq[i] = x})

Range(seq) == {seq[i] : i \in 1..Len(seq)}

\* The files process_file has returned from.
Returned == 1..Len(data_list)

\* The sheet of the form of a file that has one.
FormCol0(f) == Keys(f.all_sheets)[1].col0

\* A file none of the three structural skips applies to.
Structured(f) ==
    /\ ParsePeriod(f.name) # << >>
    /\ Keys(f.all_sheets) # << >>
    /\ RowsContaining(FormCol0(f), AnchorText, 1) # << >>

\* The normalized names of the summary entries of the district reference.
SummaryKeys ==
    {NameKey(reg_map_json.fo[j].fo_name) :
        j \in {i \in 1..Len(reg_map_json.fo) : reg_map_json.fo[i].summary}}

RegionKeys ==
    {NameKey(reg_map_json.regions[j].reg_name) : j \in 1..Len(reg_map_json.regions)}

\* The rows of a structured file that go into the two joins.
Normalized(f) ==
    LET col0 == FormCol0(f)
        period == ParsePeriod(f.name)
    IN  DropSummary(Slice(col0, RowsContaining(col0, AnchorText, 1)[1], NEnd(col0),
                          Cols(period), period),
                    FoFrame(reg_map_json.fo))

\* C1: whatever files of a batch are skipped, and also when all of them are,
\* main does not abort: once the files are processed without an exception,
\* main ends with the export, and the exported rows are the rows returned
\* by the files that were not skipped.
C1_SkipsNeverAbortTheBatch ==
    (files # << >> /\ Len(data_list) = Len(files) /\ status # "running") =>
        /\ status = "done"
        /\ LET rows == Flatten([k \in 1..Len(data_list) |-> data_list[k].rows])
           IN  /\ Len(covid_russia) = Len(rows)
               /\ \A r \in Range(rows) : Count(covid_russia, r) = Count(rows, r)

\* C2: the rows of a file hold columns 0,1,2,3 of the sheet exactly when the
\* period derived from its name is before May 2021, and columns 0,1,4,7 for
\* May 2021 and every later month.  (The number in column j of a row is the
\* number in column 1 plus j - 1.)
C2_LayoutSwitchesAtMay2021 ==
    \A k \in Returned :
        ~data_list[k].none =>
            LET period == ParsePeriod(files[k].name)
                before == period[2] < 2021 \/ (period[2] = 2021 /\ period[1] < 5)
            IN  \A r \in Range(data_list[k].rows) :
                    /\ r.confirmed_covid_deaths - r.total_deaths = (IF before THEN 1 ELSE 3)
                    /\ r.possible_covid_deaths - r.total_deaths = (IF before THEN 2 ELSE 6)

\* C3: the period of a file depends on the first two numbers a, b of its name
\* alone: month a of year b when a < 2020, month b of year a otherwise.
C3_PeriodFromFirstTwoRuns ==
    \A k \in Returned :
        ~data_list[k].none =>
            LET runs == FindAllInt(files[k].name, 0, FALSE)
                claimed == IF runs[1] < 2020 THEN << runs[1], runs[2] >>
                           ELSE << runs[2], runs[1] >>
            IN  \A r \in Range(data_list[k].rows) :
                    r.period = ZeroPad(Decimal(claimed[2]), 4) \o << "-" >>
                                   \o ZeroPad(Decimal(claimed[1]), 2) \o << "-", "0", "1" >>

\* The file process_file is in, or has left with an exception.
Started(k) ==
    \/ k \in Returned
    \/ k = Len(data_list) + 1 /\ k <= Len(files) /\ error \in {"reg_map", "join"}

\* C4: a structured file with a subject that no region entry names is not
\* fatal: process_file returns, the row is in what it returns with no region
\* code, and the names were printed.
C4_UnmatchedSubjectIsNotFatal ==
    \A k \in 1..Len(files) :
        (/\ Started(k)
         /\ reg_map_json.ok
         /\ Structured(files[k])
         /\ \E r \in Range(Normalized(files[k])) : r.name_key \notin RegionKeys) =>
            /\ k \in Returned
            /\ ~data_list[k].none
            /\ \A r \in Range(Normalized(files[k])) :
                   r.name_key \notin RegionKeys =>
                       \E d \in Range(data_list[k].rows) :
                           d.subject = r.subject /\ d.reg_code = NaN
            /\ \E i \in 1..Len(console) : console[i].msg = "no_region"

\* C5: no row that process_file returns, and no row of the exported dataset,
\* has the normalized name of a summary entry of the district reference.
C5_NoSummaryRowIsEmitted ==
    /\ \A k \in Returned : \A r \in Range(data_list[k].rows) :
           NameKey(r.subject) \notin SummaryKeys
    /\ \A r \in Range(covid_russia) : NameKey(r.subject) \notin SummaryKeys

\* A file whose extracted rows begin with a row named exactly as the summary
\* entry of the reference has returned rows, and they were exported.
C5_Witness ==
    /\ status = "done"
    /\ covid_russia # << >>
    /\ NameKey(AnchorText) \in SummaryKeys
    /\ \E k \in Returned :
           /\ data_list[k].rows # << >>
           /\ \E i \in 1..Len(FormCol0(files[k])) : FormCol0(files[k])[i] = AnchorText

\* C6: the two joins neither drop nor duplicate a row, whatever the reference
\* tables hold.
C6_JoinsKeepTheRowCount ==
    \A k \in Returned :
        ~data_list[k].none => Len(data_list[k].rows) = Len(Normalized(files[k]))

\* C7: when reg_map.json cannot be loaded, the run aborts before any file is
\* processed: nothing was printed and no workbook was read.
C7_ReferenceFailsBeforeAnyFile ==
    error = "reg_map" => (console = << >> /\ workbooks_read = 0 /\ data_list = << >>)

\* (month, year) before (month, year).
Earlier(p, q) == p[2] < q[2] \/ (p[2] = q[2] /\ p[1] < q[1])

\* The periods the names of the batch give.
Periods == {ParsePeriod(files[k].name) : k \in 1..Len(files)} \ {<< >>}

\* C8: the exported rows are in the order of their subjects and, for one
\* subject, in the order in time of the periods their period texts were
\* formatted from.
C8_ExportIsSortedBySubjectThenTime ==
    \A i \in 1..(Len(covid_russia) - 1) :
        LET a == covid_russia[i]
            b == covid_russia[i + 1]
        IN  /\ ~StrLess(b.subject, a.subject)
            /\ a.subject = b.subject =>
                   \A p, q \in Periods :
                       (FormatPeriod(p) = a.period /\ FormatPeriod(q) = b.period) =>
                           ~Earlier(q, p)

\* One subject is exported for a one-digit and a two-digit month of one year.
C8_Witness ==
    /\ status = "done"
    /\ \E i \in 1..(Len(covid_russia) - 1) :
           /\ covid_russia[i].subject = covid_russia[i + 1].subject
           /\ \E p, q \in Periods :
                  /\ FormatPeriod(p) = covid_russia[i].period
                  /\ FormatPeriod(q) = covid_russia[i + 1].period
                  /\ p[2] = q[2] /\ p[1] < 10 /\ q[1] >= 10

\* Every file lists a subject once at most, and no two files are the release
\* of one month.
CorrectInput ==
    /\ \A k \in 1..Len(files) :
           Keys(files[k].all_sheets) # << >> =>
               \A i, j \in 1..Len(FormCol0(files[k])) :
                   FormCol0(files[k])[i] = FormCol0(files[k])[j] => i = j
    /\ \A k, l \in 1..Len(files) : files[k].release = files[l].release => k = l

\* C9: under correct input no (subject, period) is exported twice.
C9_NoDuplicateSubjectPeriod ==
    (status = "done" /\ CorrectInput) =>
        \A i, j \in 1..Len(covid_russia) :
            (/\ covid_russia[i].subject = covid_russia[j].subject
             /\ covid_russia[i].period = covid_russia[j].period) => i = j

\* C10: the rows extracted reach from the anchor row to the first footnote
\* row after it, or to the end of the sheet: each of them that is not a
\* summary row is in what process_file returns.
C10_RowsFromAnchorToFootnoteAfterIt ==
    \A k \in Returned :
        ~data_list[k].none =>
            LET col0 == FormCol0(files[k])
                anchor == RowsContaining(col0, AnchorText, 1)[1]
                After(r) == r > anchor
                notes == SelectSeq(RowsContaining(col0, FootnoteText, 1), After)
                footnote == IF notes = << >> THEN Len(col0) ELSE notes[1]
            IN  \A r \in anchor..(footnote - 1) :
                    NameKey(col0[r + 1]) \notin SummaryKeys =>
                        \E d \in Range(data_list[k].rows) :
                            /\ d.subject = col0[r + 1]
                            /\ d.total_deaths = CellValue(r, 1)

====
